---- MODULE Spec2Model ----
(***************************************************************************)
(* Model of spool_optimizer.py: the command line entry point main() and    *)
(* DocumentSpoolOptimizer.process_document / _log_compression_ratio.       *)
(* Every statement of process_document that calls the document engine or   *)
(* the file system is one step; each such call either returns or raises.   *)
(***************************************************************************)
EXTENDS Integers, Sequences, FiniteSets, TLC

\* ---------------------------------------------------------------- bounds
MaxPages == 3

\* ------------------------------------------------------------- constants
DefaultDPI == 100

\* --------------------------------------------------------------- inputs
\* page rectangles (width, height in points) a source page may have
Rects == { [width |-> 595, height |-> 842], [width |-> 612, height |-> 792] }

\* values of the --dpi argument; 0 stands for "argument not given"
DpiArgs == {0, 72, 150}

\* exceptions (subclasses of Exception) the engine or the file system raise
Causes == {"RuntimeError", "OSError"}

RECURSIVE SeqsUpTo(_, _)
SeqsUpTo(S, n) ==
    IF n = 0 THEN { <<>> }
    ELSE LET shorter == SeqsUpTo(S, n - 1)
         IN  shorter \cup { Append(s, x) : s \in { t \in shorter : Len(t) = n - 1 }, x \in S }

\* the value of a local that was not assigned yet
None == [none |-> TRUE]

\* states of the output path on storage
Absent   == [state |-> "absent",   pages |-> <<>>]
Previous == [state |-> "previous", pages |-> <<>>]
Partial  == [state |-> "partial",  pages |-> <<>>]

VARIABLES
    pc,            \* position in main / process_document
    input_file,    \* "missing", "corrupt" (not a document) or "pdf"
    src_pages,     \* the pages (rectangles) of the document stored at input_path
    dpi_arg,       \* the --dpi argument
    dpi,           \* self.dpi
    output_file,   \* what is stored at output_path
    output_before, \* what was stored at output_path when main started
    src_doc,       \* "unopened", "open" or "closed"
    out_doc,       \* "unopened", "open" or "closed"
    out_pages,     \* the pages of out_doc
    total_pages,   \* local total_pages (-1 before assignment)
    page_num,      \* loop variable page_num (-1 before the loop)
    page,          \* local page
    pix,           \* local pix
    img_bytes,     \* local img_bytes
    result,        \* "none", "True" or "False": what process_document returned
    exit_code,     \* -1 while running, else the exit status of the process
    errors,        \* the records passed to logger.error
    calls          \* history: the engine and file system calls made so far

vars == << pc, input_file, src_pages, dpi_arg, dpi, output_file, output_before,
           src_doc, out_doc, out_pages, total_pages, page_num, page, pix,
           img_bytes, result, exit_code, errors, calls >>

inputs == << input_file, src_pages, dpi_arg, output_before >>
locals == << total_pages, page_num, page, pix, img_bytes >>

Init ==
    /\ pc = "main"
    /\ input_file \in {"missing", "corrupt", "pdf"}
    /\ src_pages \in SeqsUpTo(Rects, MaxPages)
    /\ (input_file # "pdf" => src_pages = <<>>)
    /\ dpi_arg \in DpiArgs
    /\ dpi = -1
    /\ output_file \in {Absent, Previous}
    /\ output_before = output_file
    /\ src_doc = "unopened"
    /\ out_doc = "unopened"
    /\ out_pages = <<>>
    /\ total_pages = -1
    /\ page_num = -1
    /\ page = None
    /\ pix = None
    /\ img_bytes = None
    /\ result = "none"
    /\ exit_code = -1
    /\ errors = <<>>
    /\ calls = <<>>

\* ------------------------------------------------------------- helpers
Call(op, i, ok, e) == [op |-> op, page |-> i, ok |-> ok, err |-> e]

\* logger.error("Input file does not exist: %s", input_path)
MissingRecord == [msg |-> "Input file does not exist", cause |-> "none", page |-> -1]

\* logger.error("Failed to process document: %s", str(e), exc_info=True):
\* the only argument of the record is str(e); page |-> -1 says that no page
\* index is passed to the logger.
FailureRecord_generic(e) == [msg |-> "Failed to process document", cause |-> "error", page |-> -1]

FailureRecord(e) == [msg |-> "Failed to process document", cause |-> e, page |-> -1]

\* except Exception as e: log and return False (a retry is never made)
Handler_retry(e) ==
    IF Len(errors) = 0
    THEN /\ errors' = Append(errors, FailureRecord(e))
         /\ UNCHANGED << pc, result >>
    ELSE /\ errors' = Append(errors, FailureRecord(e))
         /\ result' = "False"
         /\ pc' = "returned"

Handler_swallow(e) ==
    /\ errors' = Append(errors, FailureRecord(e))
    /\ result' = "True"
    /\ pc' = "returned"

Handler(e) ==
    /\ errors' = Append(errors, FailureRecord(e))
    /\ result' = "False"
    /\ pc' = "returned"

\* a call of the engine that raises e: nothing but the history and the
\* handler's effects change
Raises(op, i, e) ==
    /\ calls' = Append(calls, Call(op, i, FALSE, e))
    /\ Handler(e)

\* ----------------------------------------------------------------- main
\* main(): parse the arguments and construct DocumentSpoolOptimizer(dpi)
ParseArgs ==
    /\ pc = "main"
    /\ dpi' = IF dpi_arg = 0 THEN DefaultDPI ELSE dpi_arg
    /\ pc' = "check_input"
    /\ UNCHANGED << inputs, output_file, src_doc, out_doc, out_pages, locals,
                    result, exit_code, errors, calls >>

\* sys.exit(1) if not success, else the interpreter ends with status 0
ExitStatus_zero(success) == 0

ExitStatus(success) == IF success = "True" THEN 0 ELSE 1

MainExit ==
    /\ pc = "returned"
    /\ exit_code' = ExitStatus(result)
    /\ pc' = "exited"
    /\ UNCHANGED << inputs, dpi, output_file, src_doc, out_doc, out_pages, locals,
                    result, errors, calls >>

\* ----------------------------------------------------- process_document
\* if not input_path.exists(): log and return False
CheckInput_nocheck ==
    /\ pc = "check_input"
    /\ pc' = "open_src"
    /\ UNCHANGED << result, errors >>
    /\ UNCHANGED << inputs, dpi, output_file, src_doc, out_doc, out_pages, locals,
                    exit_code, calls >>

CheckInput ==
    /\ pc = "check_input"
    /\ IF input_file = "missing"
       THEN /\ errors' = Append(errors, MissingRecord)
            /\ result' = "False"
            /\ pc' = "returned"
       ELSE /\ pc' = "open_src"
            /\ UNCHANGED << result, errors >>
    /\ UNCHANGED << inputs, dpi, output_file, src_doc, out_doc, out_pages, locals,
                    exit_code, calls >>

\* what a raising call leaves alone
Failed(op, i) ==
    /\ \E e \in Causes : Raises(op, i, e)
    /\ UNCHANGED << inputs, dpi, output_file, src_doc, out_doc, out_pages, locals,
                    exit_code >>

\* what a returning call records
Returned(op, i) == calls' = Append(calls, Call(op, i, TRUE, "none"))

\* src_doc = fitz.open(input_path): only a document can be opened
CanOpen(f) == f = "pdf"

OpenSrc ==
    /\ pc = "open_src"
    /\ \/ /\ CanOpen(input_file)
          /\ src_doc' = "open"
          /\ Returned("open", -1)
          /\ pc' = "open_out"
          /\ UNCHANGED << inputs, dpi, output_file, out_doc, out_pages, locals,
                          result, exit_code, errors >>
       \/ Failed("open", -1)

\* out_doc = fitz.open()
OpenOut ==
    /\ pc = "open_out"
    /\ \/ /\ out_doc' = "open"
          /\ out_pages' = <<>>
          /\ Returned("new_document", -1)
          /\ pc' = "count_pages"
          /\ UNCHANGED << inputs, dpi, output_file, src_doc, locals,
                          result, exit_code, errors >>
       \/ Failed("new_document", -1)

\* total_pages = len(src_doc)
len_short(doc) == IF Len(doc) > 0 THEN Len(doc) - 1 ELSE 0

len(doc) == Len(doc)

CountPages ==
    /\ pc = "count_pages"
    /\ total_pages' = len(src_pages)
    /\ pc' = "for"
    /\ UNCHANGED << inputs, dpi, output_file, src_doc, out_doc, out_pages,
                    page_num, page, pix, img_bytes, result, exit_code, errors, calls >>

\* for page_num in range(total_pages): the next index, or the end of the loop
ForLoop ==
    /\ pc = "for"
    /\ IF page_num + 1 < total_pages
       THEN /\ page_num' = page_num + 1
            /\ pc' = "load_page"
       ELSE /\ pc' = "save"
            /\ UNCHANGED page_num
    /\ UNCHANGED << inputs, dpi, output_file, src_doc, out_doc, out_pages,
                    total_pages, page, pix, img_bytes, result, exit_code, errors, calls >>

\* page = src_doc.load_page(page_num)
load_page_reversed(doc, n) == [number |-> Len(doc) - 1 - n, rect |-> doc[Len(doc) - n]]

load_page(doc, n) == [number |-> n, rect |-> doc[n + 1]]

LoadPage ==
    /\ pc = "load_page"
    /\ \/ /\ page' = load_page(src_pages, page_num)
          /\ Returned("load_page", page_num)
          /\ pc' = "get_pixmap"
          /\ UNCHANGED << inputs, dpi, output_file, src_doc, out_doc, out_pages,
                          total_pages, page_num, pix, img_bytes, result, exit_code, errors >>
       \/ Failed("load_page", page_num)

\* pix = page.get_pixmap(dpi=self.dpi, alpha=False, colorspace=fitz.csGRAY):
\* a bitmap of the page at d dots per inch of 72 points
get_pixmap(p, d) ==
    [page |-> p.number,
     width |-> (p.rect.width * d) \div 72,
     height |-> (p.rect.height * d) \div 72,
     colorspace |-> "gray", alpha |-> FALSE]

GetPixmap ==
    /\ pc = "get_pixmap"
    /\ \/ /\ pix' = get_pixmap(page, dpi)
          /\ Returned("get_pixmap", page_num)
          /\ pc' = "tobytes"
          /\ UNCHANGED << inputs, dpi, output_file, src_doc, out_doc, out_pages,
                          total_pages, page_num, page, img_bytes, result, exit_code, errors >>
       \/ Failed("get_pixmap", page_num)

\* img_bytes = pix.tobytes("jpeg")
tobytes(px, fmt) ==
    [format |-> fmt, page |-> px.page, width |-> px.width, height |-> px.height,
     colorspace |-> px.colorspace]

ToBytes ==
    /\ pc = "tobytes"
    /\ \/ /\ img_bytes' = tobytes(pix, "jpeg")
          /\ Returned("tobytes", page_num)
          /\ pc' = "new_page"
          /\ UNCHANGED << inputs, dpi, output_file, src_doc, out_doc, out_pages,
                          total_pages, page_num, page, pix, result, exit_code, errors >>
       \/ Failed("tobytes", page_num)

\* out_page = out_doc.new_page(width=page.rect.width, height=page.rect.height)
new_page_pixels(p, px) == [width |-> px.width, height |-> px.height, image |-> None]

new_page(p, px) == [width |-> p.rect.width, height |-> p.rect.height, image |-> None]

NewPage ==
    /\ pc = "new_page"
    /\ \/ /\ out_pages' = Append(out_pages, new_page(page, pix))
          /\ Returned("new_page", page_num)
          /\ pc' = "insert_image"
          /\ UNCHANGED << inputs, dpi, output_file, src_doc, out_doc,
                          locals, result, exit_code, errors >>
       \/ Failed("new_page", page_num)

\* out_page.insert_image(out_page.rect, stream=img_bytes): out_page is the
\* page new_page appended last
InsertImage ==
    /\ pc = "insert_image"
    /\ \/ /\ out_pages' = [out_pages EXCEPT ![Len(out_pages)].image = img_bytes]
          /\ Returned("insert_image", page_num)
          /\ pc' = "for"
          /\ UNCHANGED << inputs, dpi, output_file, src_doc, out_doc,
                          locals, result, exit_code, errors >>
       \/ Failed("insert_image", page_num)

\* out_doc.save(output_path, garbage=4, deflate=True, clean=True); a save
\* that raises may have written nothing or a part of the file
Save ==
    /\ pc = "save"
    /\ \/ /\ output_file' = [state |-> "saved", pages |-> out_pages]
          /\ Returned("save", -1)
          /\ pc' = "close_src"
          /\ UNCHANGED << inputs, dpi, src_doc, out_doc, out_pages,
                          locals, result, exit_code, errors >>
       \/ /\ \E e \in Causes : Raises("save", -1, e)
          /\ output_file' \in {output_file, Partial}
          /\ UNCHANGED << inputs, dpi, src_doc, out_doc, out_pages, locals, exit_code >>

\* src_doc.close()
CloseSrc ==
    /\ pc = "close_src"
    /\ \/ /\ src_doc' = "closed"
          /\ Returned("close_src", -1)
          /\ pc' = "close_out"
          /\ UNCHANGED << inputs, dpi, output_file, out_doc, out_pages,
                          locals, result, exit_code, errors >>
       \/ Failed("close_src", -1)

\* out_doc.close()
CloseOut ==
    /\ pc = "close_out"
    /\ \/ /\ out_doc' = "closed"
          /\ Returned("close_out", -1)
          /\ pc' = "report"
          /\ UNCHANGED << inputs, dpi, output_file, src_doc, out_pages,
                          locals, result, exit_code, errors >>
       \/ Failed("close_out", -1)

\* self._log_compression_ratio(input_path, output_path); return True.
\* The sizes are read with stat() inside the try block of process_document:
\* a stat() that raises is handled like every other exception.
LogCompressionRatio ==
    /\ pc = "report"
    /\ \/ /\ Returned("stat", -1)
          /\ result' = "True"
          /\ pc' = "returned"
          /\ UNCHANGED << inputs, dpi, output_file, src_doc, out_doc, out_pages,
                          locals, exit_code, errors >>
       \/ Failed("stat", -1)

Next ==
    \/ ParseArgs
    \/ CheckInput
    \/ OpenSrc
    \/ OpenOut
    \/ CountPages
    \/ ForLoop
    \/ LoadPage
    \/ GetPixmap
    \/ ToBytes
    \/ NewPage
    \/ InsertImage
    \/ Save
    \/ CloseSrc
    \/ CloseOut
    \/ LogCompressionRatio
    \/ MainExit

Spec == Init /\ [][Next]_vars

\* ------------------------------------------------------------ vocabulary
Terminal == pc \in {"returned", "exited"}
NoFault == \A k \in DOMAIN calls : calls[k].ok
FailedCall == calls # <<>> /\ ~calls[Len(calls)].ok
LastCall == calls[Len(calls)]
Count(op, i) == Cardinality({ k \in DOMAIN calls : calls[k].op = op /\ calls[k].page = i })
PageOps == {"load_page", "get_pixmap", "tobytes", "new_page", "insert_image"}
StepOps == PageOps \cup {"open", "new_document", "save"}
Embedded(k) == Cardinality({ j \in 1 .. k : calls[j].op = "insert_image" /\ calls[j].ok })

TypeOK ==
    /\ src_doc \in {"unopened", "open", "closed"}
    /\ out_doc \in {"unopened", "open", "closed"}
    /\ result \in {"none", "True", "False"}
    /\ exit_code \in {-1, 0, 1}
    /\ page_num \in -1 .. MaxPages

\* ---------------------------------------------------------------- claims

\* C1: in every terminal state of process_document no document handle that
\* was opened is left unclosed.
C1_HandlesReleased ==
    Terminal => (src_doc # "open" /\ out_doc # "open")

\* C2: a run on a document of N pages (N = 0, 1 or more) in which no call
\* raises ends in success, with an output saved with exactly N pages.
C2_PageCountPreserved ==
    (Terminal /\ input_file = "pdf" /\ NoFault) =>
        /\ result = "True"
        /\ output_file.state = "saved"
        /\ Len(output_file.pages) = Len(src_pages)
        /\ (pc = "exited" => exit_code = 0)

C2_Witness ==
    /\ pc = "exited"
    /\ NoFault
    /\ Len(src_pages) >= 2
    /\ output_file.state = "saved"

\* C3: with a missing input, process_document returns False without raising,
\* opens and creates nothing, and leaves the output path as it was.
C3_MissingInput ==
    (input_file = "missing" /\ pc \notin {"main", "check_input"}) =>
        /\ Terminal
        /\ result = "False"
        /\ calls = <<>>
        /\ src_doc = "unopened"
        /\ out_doc = "unopened"
        /\ output_file = output_before

C3_Witness ==
    /\ input_file = "missing"
    /\ pc = "returned"
    /\ result = "False"
    /\ output_before = Previous

\* C4: once the save step succeeded, the result is success whether the size
\* report (the stat calls of _log_compression_ratio) completes or fails.
C4_ReportObservational ==
    (Terminal /\ Count("stat", -1) > 0) => result = "True"

\* C5: for every DPI, output page i has the width and the height of source
\* page i, in the output document and in the saved file.
C5_GeometryPreserved ==
    /\ \A j \in DOMAIN out_pages :
          /\ out_pages[j].width = src_pages[j].width
          /\ out_pages[j].height = src_pages[j].height
    /\ \A j \in DOMAIN output_file.pages :
          /\ output_file.pages[j].width = src_pages[j].width
          /\ output_file.pages[j].height = src_pages[j].height

C5_Witness ==
    /\ pc = "exited"
    /\ output_file.state = "saved"
    /\ Len(output_file.pages) >= 2
    /\ src_pages[1] # src_pages[2]
    /\ pix.width # page.rect.width

\* C6: pages are processed in the order 0, 1, ..., N-1, none skipped,
\* repeated or reordered: the output document holds the pages of source
\* pages 0..k-1 in that order, output page k embeds the image rendered from
\* source page k, and only the page being embedded may lack its image.
C6_SequentialOrder ==
    /\ \A j \in DOMAIN out_pages :
          IF out_pages[j].image = None
          THEN /\ j = Len(out_pages)
               /\ j = page_num + 1
               /\ \/ pc = "insert_image"
                  \/ Terminal /\ FailedCall /\ LastCall.op = "insert_image"
          ELSE out_pages[j].image.page = j - 1
    /\ page_num = -1 => out_pages = <<>>
    /\ page_num >= 0 => Len(out_pages) \in {page_num, page_num + 1}
    /\ pc \in {"for", "save", "close_src", "close_out", "report"} =>
          Len(out_pages) = page_num + 1
    /\ pc \in {"save", "close_src", "close_out", "report"} =>
          Len(out_pages) = Len(src_pages)
    /\ output_file.state = "saved" =>
          /\ Len(output_file.pages) = Len(src_pages)
          /\ \A j \in DOMAIN output_file.pages :
                /\ output_file.pages[j].image # None
                /\ output_file.pages[j].image.page = j - 1

C6_Witness ==
    /\ pc = "for"
    /\ Len(out_pages) = 2
    /\ Len(src_pages) > 2
    /\ out_pages[2].image # None
    /\ out_pages[2].image.page = 1

\* C7: the process exits with 0 exactly when process_document returned True,
\* and with 1 when the input is missing or open, render, encode, embed or
\* save raised; such an exception is turned into the result False.
C7_ExitCode ==
    /\ pc = "exited" => (exit_code = 0 <=> result = "True") /\ exit_code \in {0, 1}
    /\ (pc = "exited" /\ input_file = "missing") => exit_code = 1
    /\ (FailedCall /\ LastCall.op \in StepOps) =>
          /\ Terminal
          /\ result = "False"
          /\ (pc = "exited" => exit_code = 1)

C7_Witness ==
    /\ pc = "exited"
    /\ exit_code = 1
    /\ FailedCall
    /\ LastCall.op = "save"

\* C8: an input that exists but is not a document makes the run fail (exit
\* code 1) without reaching the save step; the output path is left as it was.
C8_CorruptInput ==
    (input_file = "corrupt" /\ Terminal) =>
        /\ result = "False"
        /\ Count("save", -1) = 0
        /\ out_doc = "unopened"
        /\ output_file = output_before
        /\ (pc = "exited" => exit_code = 1)

C8_Witness ==
    /\ input_file = "corrupt"
    /\ pc = "exited"
    /\ FailedCall
    /\ LastCall.op = "open"
    /\ output_before = Previous

\* C9 as stated: a failure while loading, rendering, encoding or embedding
\* page i is reported with its cause and with the index i.
C9_ErrorCarriesPageIndex ==
    (Terminal /\ FailedCall /\ LastCall.op \in PageOps) =>
        /\ errors # <<>>
        /\ errors[Len(errors)].cause = LastCall.err
        /\ errors[Len(errors)].page = LastCall.page

\* C9 as amended: a failure while loading, rendering, encoding or embedding
\* page i is reported once, with its cause (str(e)); no page index is passed
\* to the logger.
C9_ErrorCarriesCause ==
    (Terminal /\ FailedCall /\ LastCall.op \in PageOps) =>
        /\ Len(errors) = 1
        /\ errors[1].msg = "Failed to process document"
        /\ errors[1].cause = LastCall.err
        /\ errors[1].page = -1

C9_Witness ==
    /\ Terminal
    /\ FailedCall
    /\ LastCall.op = "tobytes"
    /\ LastCall.page = 1
    /\ Len(errors) = 1

\* C10: each source page is loaded, rendered and encoded at most once; save
\* is called at most once and only after all N pages were embedded; after
\* the first call that raises no further call is made; a failure in the
\* page loop leaves the output path unwritten.
C10_SinglePass ==
    /\ \A op \in PageOps : \A i \in 0 .. Len(src_pages) : Count(op, i) <= 1
    /\ Count("save", -1) <= 1
    /\ \A k \in DOMAIN calls :
          calls[k].op = "save" => Embedded(k - 1) = Len(src_pages)
    /\ \A k \in DOMAIN calls : ~calls[k].ok => k = Len(calls)
    /\ FailedCall => Terminal
    /\ (FailedCall /\ LastCall.op \in PageOps) =>
          /\ Count("save", -1) = 0
          /\ output_file = output_before

C10_Witness ==
    /\ pc = "exited"
    /\ FailedCall
    /\ LastCall.op = "get_pixmap"
    /\ LastCall.page = 1
    /\ Count("load_page", 0) = 1
    /\ output_file = output_before
====
